---- MODULE Spec2Model ----
(***************************************************************************)
(* Model of the DAPNET schedule announcer: the dispatch loop of main(),    *)
(* handle_announcer_event() with its bounded retry, and the translation    *)
(* of schedule events into DAPNET payloads.                                *)
(*                                                                         *)
(* The loop is one async task.  Its position (pc) is the await point it is *)
(* suspended at: the tokio::select! of main(), a transport send, or the    *)
(* sleep that follows a failed attempt.  The environment delivers ctrl-c   *)
(* signals and completes announcer.poll() and the transport sends.         *)
(***************************************************************************)
EXTENDS Integers, Sequences, FiniteSets, TLC

VARIABLES
    dry_run,      \* cli.dry_run
    mode,         \* cli.mode: "rubric" or "call"
    rubric,       \* the rubric option of Mode::Rubric
    dapnet_username,                \* cli.dapnet_username
    pre_event_announcement_time,    \* cli.pre_event_announcement_time
    startup,      \* how far main() got before its loop, and how the startup page went
    resolved,     \* the last venue resolution made on its own
    logs,         \* log lines of the retry loop for the notification last handed to delivery
    loopState,    \* "Running" until main() returns, then "Terminated"
    pc,           \* await point of the task
    attempt,      \* loop variable of `for attempt in 1..6`, 0 outside the loop
    ctrlc,        \* the ctrl_c() future of the current select! has been notified
    pollResult,   \* what the announcer.poll() future of the current select! resolved to
    counter,      \* dapnet_event_announcements, by <<target, result>>
    invoked,      \* transport send invocations of the dispatch loop, by operation
    completed,    \* transport send completions of the dispatch loop, by <<operation, result>>
    delays,       \* tokio::time::sleep calls made
    logged,       \* payloads logged by info!("News for event")/info!("Call for event")
    polled,       \* poll results consumed by the loop, in order
    signals,      \* ctrl-c signals delivered to the process
    trace,        \* what happened for the notification last handed to delivery
    base,         \* counter as it was when that notification was handed to delivery
    cancelMid     \* a ctrl-c signal arrived while a retry sequence was in progress

\* The parsed command line.
cli == <<dry_run, mode, rubric, dapnet_username, pre_event_announcement_time>>

vars == <<cli, startup, resolved, logs, loopState, pc, attempt, ctrlc,
          pollResult, counter, invoked, completed, delays, logged, polled,
          signals, trace, base, cancelMid>>

-----------------------------------------------------------------------------
(* Bounds of the model *)

MaxPolls == 3       \* poll results the loop consumes
MaxSignals == 2     \* ctrl-c signals the environment sends

-----------------------------------------------------------------------------
(* Program constants *)

AttemptsEnd == 6    \* `for attempt in 1..6`: the end of the range is exclusive
TextLimit == 80     \* longest text the DAPNET payload builders accept

Targets == {"rubric", "call"}
Results == {"ok", "error"}
Operations == {"new_news", "new_call"}

None == [none |-> TRUE]

-----------------------------------------------------------------------------
(* Translation: event_news.rs *)

\* Variant of Venue_from_schedule_name: the match ignores case.
Venue_from_schedule_name_IgnoreCase(v) ==
    CASE v \in {"Stage A", "stage a"} -> [tag |-> "StageA"]
      [] v = "Stage B" -> [tag |-> "StageB"]
      [] v = "Stage C" -> [tag |-> "StageC"]
      [] v = "Workshop 0 (Drop-in)" -> [tag |-> "Workshop0"]
      [] v = "Workshop 1 (NottingHack)" -> [tag |-> "Workshop1"]
      [] v = "Workshop 2 (Milliways)" -> [tag |-> "Workshop2"]
      [] v = "Workshop 3 (Furry High Commission)" -> [tag |-> "Workshop3"]
      [] v = "Workshop 4 (FieldFX)" -> [tag |-> "Workshop4"]
      [] v = "Workshop 5 (Maths)" -> [tag |-> "Workshop5"]
      [] v = "Workshop 6 (Hardware Hacking)" -> [tag |-> "Workshop6"]
      [] v \in {"Youth Workshop", "youth workshop"} -> [tag |-> "YouthWorkshop"]
      [] v = "Null Sector" -> [tag |-> "NullSector"]
      [] OTHER -> [tag |-> "Other", name |-> v]

Venue_from_schedule_name(v) ==
    CASE v = "Stage A" -> [tag |-> "StageA"]
      [] v = "Stage B" -> [tag |-> "StageB"]
      [] v = "Stage C" -> [tag |-> "StageC"]
      [] v = "Workshop 0 (Drop-in)" -> [tag |-> "Workshop0"]
      [] v = "Workshop 1 (NottingHack)" -> [tag |-> "Workshop1"]
      [] v = "Workshop 2 (Milliways)" -> [tag |-> "Workshop2"]
      [] v = "Workshop 3 (Furry High Commission)" -> [tag |-> "Workshop3"]
      [] v = "Workshop 4 (FieldFX)" -> [tag |-> "Workshop4"]
      [] v = "Workshop 5 (Maths)" -> [tag |-> "Workshop5"]
      [] v = "Workshop 6 (Hardware Hacking)" -> [tag |-> "Workshop6"]
      [] v = "Youth Workshop" -> [tag |-> "YouthWorkshop"]
      [] v = "Null Sector" -> [tag |-> "NullSector"]
      [] OTHER -> [tag |-> "Other", name |-> v]

\* Variant of news_number_for_venue: the last workshop arm carries the number
\* of the arm below it.
news_number_for_venue_Workshop6Slip(venue) ==
    CASE venue.tag = "StageA" -> 1
      [] venue.tag = "StageB" -> 2
      [] venue.tag = "StageC" -> 3
      [] venue.tag \in {"Workshop0", "Workshop1", "Workshop2", "Workshop3",
                        "Workshop4", "Workshop5"} -> 4
      [] venue.tag = "Workshop6" -> 5
      [] venue.tag = "YouthWorkshop" -> 5
      [] venue.tag = "NullSector" -> 6
      [] OTHER -> 10

news_number_for_venue(venue) ==
    CASE venue.tag = "StageA" -> 1
      [] venue.tag = "StageB" -> 2
      [] venue.tag = "StageC" -> 3
      [] venue.tag = "Workshop0" -> 4
      [] venue.tag = "Workshop1" -> 4
      [] venue.tag = "Workshop2" -> 4
      [] venue.tag = "Workshop3" -> 4
      [] venue.tag = "Workshop4" -> 4
      [] venue.tag = "Workshop5" -> 4
      [] venue.tag = "Workshop6" -> 4
      [] venue.tag = "YouthWorkshop" -> 5
      [] venue.tag = "NullSector" -> 6
      [] OTHER -> 10

venue_short_name(venue) ==
    CASE venue.tag = "StageA" -> "Stg A"
      [] venue.tag = "StageB" -> "Stg B"
      [] venue.tag = "StageC" -> "Stg C"
      [] venue.tag = "Workshop0" -> "Wksp 0"
      [] venue.tag = "Workshop1" -> "Wksp 1"
      [] venue.tag = "Workshop2" -> "Wksp 2"
      [] venue.tag = "Workshop3" -> "Wksp 3"
      [] venue.tag = "Workshop4" -> "Wksp 4"
      [] venue.tag = "Workshop5" -> "Wksp 5"
      [] venue.tag = "Workshop6" -> "Wksp 6"
      [] venue.tag = "YouthWorkshop" -> "Yth Wksp"
      [] venue.tag = "NullSector" -> "Nul Sec"
      [] OTHER -> venue.name

\* format!("{}: {}", venue_short_name(venue), self.title)
EventText(event) ==
    venue_short_name(Venue_from_schedule_name(event.venue)) \o ": " \o event.title

\* The payload builders of the transport library reject a text that is too long.
BuildAccepts(text) == Len(text) <= TextLimit

\* Variant of to_rubric_news: a venue outside the catalog yields no payload.
to_rubric_news_DropsUnknownVenue(event, rubric_name) ==
    LET venue == Venue_from_schedule_name(event.venue)
        news_number == news_number_for_venue(venue)
        msg == EventText(event)
    IN  IF BuildAccepts(msg) /\ venue.tag # "Other"
        THEN [rubric |-> "emfcamp", number |-> news_number, text |-> msg]
        ELSE None

to_rubric_news(event, rubric_name) ==
    LET venue == Venue_from_schedule_name(event.venue)
        news_number == news_number_for_venue(venue)
        msg == EventText(event)
    IN  IF BuildAccepts(msg)
        THEN [rubric |-> "emfcamp", number |-> news_number, text |-> msg]
        ELSE None

Recipients == {"m0abc"}

to_call(event, recipients) ==
    LET msg == EventText(event)
    IN  IF BuildAccepts(msg)
        THEN [recipients |-> recipients, text |-> msg]
        ELSE None

-----------------------------------------------------------------------------
(* What announcer.poll() can resolve to *)

LongTitle ==
    "An exceedingly long talk title that the paging network could never carry in one message"

Events ==
    { [venue |-> "Stage A", title |-> "Opening Talk"],
      [venue |-> "Bar", title |-> "Quiz"],
      [venue |-> "Stage B", title |-> LongTitle] }

NoResult == [kind |-> "none"]

PollResults ==
    { [kind |-> "Event", event |-> e] : e \in Events }
        \cup { [kind |-> "NoOp"], [kind |-> "Err"] }

ZeroCounter == [l \in Targets \X Results |-> 0]

\* Values of the rubric option: its default and another one.
Rubrics == {"emfcamp", "emf-test"}

\* Mode::Call has no rubric.
NoRubric == "(none)"

-----------------------------------------------------------------------------
(* Initial state: main() has reached its loop for the first time *)

Init ==
    /\ dry_run \in BOOLEAN
    /\ mode \in {"rubric", "call"}
    /\ rubric \in (IF mode = "rubric" THEN Rubrics ELSE {NoRubric})
    /\ dapnet_username = "m0abc"
    /\ pre_event_announcement_time = [secs |-> 120, in_range |-> TRUE]
    /\ startup = "page_sent"
    /\ resolved = None
    /\ logs = <<>>
    /\ loopState = "Running"
    /\ pc = "select"
    /\ attempt = 0
    /\ ctrlc = FALSE
    /\ pollResult = NoResult
    /\ counter = ZeroCounter
    /\ invoked = [o \in Operations |-> 0]
    /\ completed = [l \in Operations \X Results |-> 0]
    /\ delays = 0
    /\ logged = <<>>
    /\ polled = <<>>
    /\ signals = 0
    /\ trace = <<>>
    /\ base = ZeroCounter
    /\ cancelMid = FALSE

InDelivery == pc \in {"new_news", "news_sleep", "new_call", "call_sleep"}

-----------------------------------------------------------------------------
(* Environment *)

\* A ctrl-c signal reaches the process.  tokio::signal::ctrl_c() registers its
\* listener when the future is made and polled, and main() makes a new one in
\* each select!: the signal notifies the listener of the select! the task is
\* waiting in, and there is none while handle_announcer_event() runs.
ctrl_c_signal ==
    /\ loopState = "Running"
    /\ signals < MaxSignals
    /\ signals' = signals + 1
    /\ ctrlc' = (pc = "select")
    /\ cancelMid' = (cancelMid \/ InDelivery)
    /\ UNCHANGED <<cli, startup, resolved, loopState, pc, attempt, pollResult, counter,
                   invoked, completed, delays, logged, polled, trace, logs, base>>

\* The announcer.poll() future of the current select! resolves.
poll_ready ==
    /\ loopState = "Running"
    /\ pc = "select"
    /\ pollResult = NoResult
    /\ Len(polled) < MaxPolls
    /\ pollResult' \in PollResults
    /\ UNCHANGED <<cli, startup, resolved, loopState, pc, attempt, ctrlc, counter, invoked,
                   completed, delays, logged, polled, signals, trace, logs, base,
                   cancelMid>>

-----------------------------------------------------------------------------
(* handle_announcer_event *)

Bump(c, target, result) == [c EXCEPT ![<<target, result>>] = @ + 1]

\* handle_announcer_event() returns and main() loops: the next select! makes
\* its own ctrl_c() and announcer.poll() futures.
NextIteration ==
    /\ pc' = "select"
    /\ attempt' = 0
    /\ ctrlc' = FALSE
    /\ pollResult' = NoResult

\* Nothing is sent for this poll result.
NoDelivery ==
    /\ NextIteration
    /\ UNCHANGED <<counter, invoked, completed, delays, trace, logs, base>>

\* Variant of CallNewNews: the send is spawned as a task of its own and the
\* loop goes on to its next select! without awaiting it.
CallNewNews_Spawned(n, tr) ==
    /\ attempt' = 0
    /\ invoked' = [invoked EXCEPT !["new_news"] = @ + 1]
    /\ trace' = Append(tr, "send")
    /\ logs' = Append(IF n = 1 THEN <<>> ELSE logs, "Trying to send news")
    /\ pc' = "select"
    /\ ctrlc' = FALSE
    /\ pollResult' = NoResult

\* dapnet.new_news(&news) is called for the given attempt.
CallNewNews(n, tr) ==
    /\ attempt' = n
    /\ invoked' = [invoked EXCEPT !["new_news"] = @ + 1]
    /\ trace' = Append(tr, "send")
    /\ logs' = Append(IF n = 1 THEN <<>> ELSE logs, "Trying to send news")
    /\ pc' = "new_news"
    /\ ctrlc' = FALSE
    /\ pollResult' = NoResult

\* dapnet.new_call(&call) is called for the given attempt.
CallNewCall(n, tr) ==
    /\ attempt' = n
    /\ invoked' = [invoked EXCEPT !["new_call"] = @ + 1]
    /\ trace' = Append(tr, "send")
    /\ logs' = Append(IF n = 1 THEN <<>> ELSE logs, "Trying to send news")
    /\ pc' = "new_call"
    /\ ctrlc' = FALSE
    /\ pollResult' = NoResult

\* Variant of RubricArm: the dry_run flag is not consulted.
RubricArm_IgnoresDryRun(event) ==
    LET news == to_rubric_news(event, rubric)
    IN  IF news # None
        THEN /\ logged' = Append(logged, news)
             /\ CallNewNews(1, <<>>)
             /\ base' = counter
             /\ UNCHANGED <<counter, completed, delays>>
        ELSE /\ NoDelivery
             /\ UNCHANGED logged

\* Mode::Rubric arm, up to its first await.
RubricArm(event) ==
    LET news == to_rubric_news(event, rubric)
    IN  IF news # None
        THEN /\ logged' = Append(logged, news)
             /\ IF ~dry_run
                THEN /\ CallNewNews(1, <<>>)
                     /\ base' = counter
                     /\ UNCHANGED <<counter, completed, delays>>
                ELSE NoDelivery
        ELSE /\ NoDelivery
             /\ UNCHANGED logged

\* Mode::Call arm, up to its first await.
CallArm(event) ==
    LET call == to_call(event, Recipients)
    IN  IF call # None
        THEN /\ logged' = Append(logged, call)
             /\ IF ~dry_run
                THEN /\ CallNewCall(1, <<>>)
                     /\ base' = counter
                     /\ UNCHANGED <<counter, completed, delays>>
                ELSE NoDelivery
        ELSE /\ NoDelivery
             /\ UNCHANGED logged

handle_announcer_event(msg) ==
    IF msg.kind = "Event"
    THEN IF mode = "rubric" THEN RubricArm(msg.event) ELSE CallArm(msg.event)
    ELSE /\ NoDelivery
         /\ UNCHANGED logged

\* Variant of NewNewsReturns: the Ok arm does not break out of the loop.
NewNewsReturns_NoBreak(result) ==
    /\ completed' = [completed EXCEPT ![<<"new_news", result>>] = @ + 1]
    /\ IF result = "ok"
       THEN /\ counter' = Bump(counter, "rubric", "ok")
            /\ UNCHANGED delays
            /\ IF attempt + 1 < AttemptsEnd
               THEN CallNewNews(attempt + 1, Append(trace, "ok"))
               ELSE /\ trace' = Append(trace, "ok")
                    /\ logs' = Append(logs, "News sent")
                    /\ NextIteration
                    /\ UNCHANGED invoked
       ELSE /\ counter' = Bump(counter, "rubric", "error")
            /\ trace' = trace \o <<"error", "delay">>
            /\ logs' = Append(logs, "Failed to send news")
            /\ delays' = delays + 1
            /\ pc' = "news_sleep"
            /\ UNCHANGED <<attempt, ctrlc, pollResult, invoked>>

\* The await on dapnet.new_news() returns.
NewNewsReturns(result) ==
    /\ completed' = [completed EXCEPT ![<<"new_news", result>>] = @ + 1]
    /\ IF result = "ok"
       THEN /\ counter' = Bump(counter, "rubric", "ok")
            /\ trace' = Append(trace, "ok")
            /\ logs' = Append(logs, "News sent")
            /\ NextIteration
            /\ UNCHANGED <<delays, invoked>>
       ELSE /\ counter' = Bump(counter, "rubric", "error")
            /\ trace' = trace \o <<"error", "delay">>
            /\ logs' = Append(logs, "Failed to send news")
            /\ delays' = delays + 1
            /\ pc' = "news_sleep"
            /\ UNCHANGED <<attempt, ctrlc, pollResult, invoked>>

\* Variant of NewsSleepReturns: the range of the loop is inclusive (1..=6).
NewsSleepReturns_InclusiveRange ==
    IF attempt + 1 <= AttemptsEnd
    THEN /\ CallNewNews(attempt + 1, trace)
         /\ UNCHANGED <<counter, completed, delays>>
    ELSE /\ NextIteration
         /\ UNCHANGED <<counter, invoked, completed, delays, trace, logs>>

\* The sleep after a failed new_news() ends: next turn of the for loop.
NewsSleepReturns ==
    IF attempt + 1 < AttemptsEnd
    THEN /\ CallNewNews(attempt + 1, trace)
         /\ UNCHANGED <<counter, completed, delays>>
    ELSE /\ NextIteration
         /\ UNCHANGED <<counter, invoked, completed, delays, trace, logs>>

\* Variant of NewCallReturns: the counter labels were copied from the rubric
\* arm unchanged.
NewCallReturns_RubricLabel(result) ==
    /\ completed' = [completed EXCEPT ![<<"new_call", result>>] = @ + 1]
    /\ IF result = "ok"
       THEN /\ counter' = Bump(counter, "rubric", "ok")
            /\ trace' = Append(trace, "ok")
            /\ logs' = Append(logs, "Call sent")
            /\ NextIteration
            /\ UNCHANGED <<delays, invoked>>
       ELSE /\ counter' = Bump(counter, "rubric", "error")
            /\ trace' = trace \o <<"error", "delay">>
            /\ logs' = Append(logs, "Failed to send call")
            /\ delays' = delays + 1
            /\ pc' = "call_sleep"
            /\ UNCHANGED <<attempt, ctrlc, pollResult, invoked>>

\* Variant of NewCallReturns: the Err arm of the call loop does not sleep.
NewCallReturns_NoSleep(result) ==
    /\ completed' = [completed EXCEPT ![<<"new_call", result>>] = @ + 1]
    /\ IF result = "ok"
       THEN /\ counter' = Bump(counter, "call", "ok")
            /\ trace' = Append(trace, "ok")
            /\ logs' = Append(logs, "Call sent")
            /\ NextIteration
            /\ UNCHANGED <<delays, invoked>>
       ELSE /\ counter' = Bump(counter, "call", "error")
            /\ trace' = Append(trace, "error")
            /\ logs' = Append(logs, "Failed to send call")
            /\ pc' = "call_sleep"
            /\ UNCHANGED <<attempt, ctrlc, pollResult, invoked, delays>>

\* The await on dapnet.new_call() returns.
NewCallReturns(result) ==
    /\ completed' = [completed EXCEPT ![<<"new_call", result>>] = @ + 1]
    /\ IF result = "ok"
       THEN /\ counter' = Bump(counter, "call", "ok")
            /\ trace' = Append(trace, "ok")
            /\ logs' = Append(logs, "Call sent")
            /\ NextIteration
            /\ UNCHANGED <<delays, invoked>>
       ELSE /\ counter' = Bump(counter, "call", "error")
            /\ trace' = trace \o <<"error", "delay">>
            /\ logs' = Append(logs, "Failed to send call")
            /\ delays' = delays + 1
            /\ pc' = "call_sleep"
            /\ UNCHANGED <<attempt, ctrlc, pollResult, invoked>>

\* Variant of CallSleepReturns: the loop gives up the remaining attempts when
\* a ctrl-c signal has arrived during the sequence.
CallSleepReturns_Cancellable ==
    IF attempt + 1 < AttemptsEnd /\ ~cancelMid
    THEN /\ CallNewCall(attempt + 1, trace)
         /\ UNCHANGED <<counter, completed, delays>>
    ELSE /\ NextIteration
         /\ UNCHANGED <<counter, invoked, completed, delays, trace, logs>>

\* Variant of CallSleepReturns: a notification that ran out of attempts is
\* taken up again from attempt 1.
CallSleepReturns_Requeue ==
    /\ CallNewCall(IF attempt + 1 < AttemptsEnd THEN attempt + 1 ELSE 1, trace)
    /\ UNCHANGED <<counter, completed, delays>>

\* The sleep after a failed new_call() ends: next turn of the for loop.
CallSleepReturns ==
    IF attempt + 1 < AttemptsEnd
    THEN /\ CallNewCall(attempt + 1, trace)
         /\ UNCHANGED <<counter, completed, delays>>
    ELSE /\ NextIteration
         /\ UNCHANGED <<counter, invoked, completed, delays, trace, logs>>

-----------------------------------------------------------------------------
(* Steps of the task *)

\* select! takes the ctrl_c() branch: return Ok(()).
select_ctrl_c ==
    /\ loopState = "Running"
    /\ pc = "select"
    /\ ctrlc
    /\ loopState' = "Terminated"
    /\ UNCHANGED <<cli, startup, resolved, pc, attempt, ctrlc, pollResult, counter, invoked,
                   completed, delays, logged, polled, signals, trace, logs, base,
                   cancelMid>>

\* Variant of select_poll: a poll error is propagated out of main().
select_poll_ErrFatal ==
    /\ loopState = "Running"
    /\ pc = "select"
    /\ pollResult # NoResult
    /\ polled' = Append(polled, pollResult)
    /\ handle_announcer_event(pollResult)
    /\ loopState' = IF pollResult.kind = "Err" THEN "Terminated" ELSE loopState
    /\ UNCHANGED <<cli, startup, resolved, signals, cancelMid>>

\* select! takes the announcer.poll() branch.  With both branches ready
\* select! (not `biased`) takes either.
select_poll ==
    /\ loopState = "Running"
    /\ pc = "select"
    /\ pollResult # NoResult
    /\ polled' = Append(polled, pollResult)
    /\ handle_announcer_event(pollResult)
    /\ UNCHANGED <<cli, startup, resolved, loopState, signals, cancelMid>>

new_news_done ==
    /\ pc = "new_news"
    /\ \E result \in Results : NewNewsReturns(result)
    /\ UNCHANGED <<cli, startup, resolved, loopState, logged, polled, signals, base,
                   cancelMid>>

news_sleep_done ==
    /\ pc = "news_sleep"
    /\ NewsSleepReturns
    /\ UNCHANGED <<cli, startup, resolved, loopState, logged, polled, signals, base,
                   cancelMid>>

new_call_done ==
    /\ pc = "new_call"
    /\ \E result \in Results : NewCallReturns(result)
    /\ UNCHANGED <<cli, startup, resolved, loopState, logged, polled, signals, base,
                   cancelMid>>

call_sleep_done ==
    /\ pc = "call_sleep"
    /\ CallSleepReturns
    /\ UNCHANGED <<cli, startup, resolved, loopState, logged, polled, signals, base,
                   cancelMid>>

Next ==
    \/ ctrl_c_signal
    \/ poll_ready
    \/ select_ctrl_c
    \/ select_poll
    \/ new_news_done
    \/ news_sleep_done
    \/ new_call_done
    \/ call_sleep_done

Spec == Init /\ [][Next]_vars

-----------------------------------------------------------------------------
(* The whole of main(): start-up, then the loop *)

LongUsername == "a-dapnet-username-much-longer-than-any-callsign"

Usernames == {"m0abc", LongUsername}

\* Values of --pre-event-announcement-time.  in_range tells whether the
\* magnitude is within what chrono's Duration::try_seconds accepts
\* (i64::MAX / 1000 seconds); a value outside it is beyond the integers of
\* the model and is carried by the flag alone.
Offsets ==
    { [secs |-> 120, in_range |-> TRUE],
      [secs |-> 0, in_range |-> TRUE],
      [secs |-> -120, in_range |-> TRUE],
      [secs |-> 0, in_range |-> FALSE] }

\* Duration::try_seconds(cli.pre_event_announcement_time)
try_seconds(t) == IF t.in_range THEN [seconds |-> t.secs] ELSE None

\* Utc::now().format("%d %H:%M %Z")
StartupTime == "05 18:30 UTC"

\* format!("{recipient}: EMF sched. anncr. start at {}", ...)
StartupText(recipient) ==
    recipient \o ": EMF sched. anncr. start at " \o StartupTime

InitMain ==
    /\ dry_run \in BOOLEAN
    /\ mode \in {"rubric", "call"}
    /\ rubric \in (IF mode = "rubric" THEN Rubrics ELSE {NoRubric})
    /\ dapnet_username \in Usernames
    /\ pre_event_announcement_time \in Offsets
    /\ startup = "starting"
    /\ resolved = None
    /\ logs = <<>>
    /\ loopState = "Starting"
    /\ pc = "start"
    /\ attempt = 0
    /\ ctrlc = FALSE
    /\ pollResult = NoResult
    /\ counter = ZeroCounter
    /\ invoked = [o \in Operations |-> 0]
    /\ completed = [l \in Operations \X Results |-> 0]
    /\ delays = 0
    /\ logged = <<>>
    /\ polled = <<>>
    /\ signals = 0
    /\ trace = <<>>
    /\ base = ZeroCounter
    /\ cancelMid = FALSE

\* main() returns an error before its loop.
ExitWith(why) ==
    /\ startup' = why
    /\ pc' = "exit"
    /\ loopState' = "Failed"

\* main() from its start to the await on Announcer::new(): the metrics
\* exporter is installed, the offset is made a Duration.
main_start ==
    /\ pc = "start"
    /\ \E installed \in BOOLEAN :
           IF ~installed
           THEN ExitWith("metrics_failed")
           ELSE IF try_seconds(pre_event_announcement_time) = None
                THEN ExitWith("offset_invalid")
                ELSE /\ pc' = "announcer_new"
                     /\ UNCHANGED <<startup, loopState>>
    /\ UNCHANGED <<cli, resolved, logs, attempt, ctrlc, pollResult, counter,
                   invoked, completed, delays, logged, polled, signals, trace,
                   base, cancelMid>>

\* send_startup_page() up to its await on dapnet.new_call(): the page is built.
BuildStartupPage ==
    IF BuildAccepts(StartupText(dapnet_username))
    THEN /\ pc' = "startup_page"
         /\ UNCHANGED <<startup, loopState>>
    ELSE ExitWith("page_build_failed")

\* Announcer::new(...).await returns; on success the DAPNET client is made
\* and send_startup_page() is entered.
announcer_new_done ==
    /\ pc = "announcer_new"
    /\ \E created \in BOOLEAN :
           IF created THEN BuildStartupPage ELSE ExitWith("announcer_failed")
    /\ UNCHANGED <<cli, resolved, logs, attempt, ctrlc, pollResult, counter,
                   invoked, completed, delays, logged, polled, signals, trace,
                   base, cancelMid>>

\* The new_call() of the startup page returns: info! or warn!, Ok(()) either
\* way, and main() enters its loop.
startup_page_done ==
    /\ pc = "startup_page"
    /\ \E result \in Results :
           startup' = IF result = "ok" THEN "page_sent" ELSE "page_failed"
    /\ pc' = "select"
    /\ loopState' = "Running"
    /\ UNCHANGED <<cli, resolved, logs, attempt, ctrlc, pollResult, counter,
                   invoked, completed, delays, logged, polled, signals, trace,
                   base, cancelMid>>

NextMain ==
    \/ main_start
    \/ announcer_new_done
    \/ startup_page_done
    \/ Next

MainSpec == InitMain /\ [][NextMain]_vars

-----------------------------------------------------------------------------
(* Translation on its own: the venue resolution and the payload builders     *)
(* applied to one event.                                                     *)

\* Venue strings: the twelve of the catalog, and strings that are not in it
\* (the empty string, prefixes, case variants, a trailing blank, others).
VenueInputs ==
    { "Stage A", "Stage B", "Stage C",
      "Workshop 0 (Drop-in)", "Workshop 1 (NottingHack)",
      "Workshop 2 (Milliways)", "Workshop 3 (Furry High Commission)",
      "Workshop 4 (FieldFX)", "Workshop 5 (Maths)",
      "Workshop 6 (Hardware Hacking)", "Youth Workshop", "Null Sector",
      "", "Stage", "stage a", "STAGE B", "Stage A ", "Stage D", "Workshop 0",
      "Workshop 7 (Lasers)", "youth workshop", "Null Sector 2", "Bar" }

Titles == {"Opening Talk", "Quiz", LongTitle}

InitTranslate ==
    /\ dry_run = FALSE
    /\ mode \in {"rubric", "call"}
    /\ rubric \in (IF mode = "rubric" THEN Rubrics ELSE {NoRubric})
    /\ dapnet_username = "m0abc"
    /\ pre_event_announcement_time = [secs |-> 120, in_range |-> TRUE]
    /\ startup = "page_sent"
    /\ resolved = None
    /\ logs = <<>>
    /\ loopState = "Running"
    /\ pc = "translate"
    /\ attempt = 0
    /\ ctrlc = FALSE
    /\ pollResult \in { [kind |-> "Event", event |-> [venue |-> v, title |-> t]] :
                          v \in VenueInputs, t \in Titles }
    /\ counter = ZeroCounter
    /\ invoked = [o \in Operations |-> 0]
    /\ completed = [l \in Operations \X Results |-> 0]
    /\ delays = 0
    /\ logged = <<>>
    /\ polled = <<>>
    /\ signals = 0
    /\ trace = <<>>
    /\ base = ZeroCounter
    /\ cancelMid = FALSE

\* The venue of the event is resolved: Venue::from_schedule_name, then
\* venue_short_name and news_number_for_venue of what it returned.
resolve_venue ==
    /\ pc = "translate"
    /\ resolved = None
    /\ LET venue == Venue_from_schedule_name(pollResult.event.venue)
       IN  resolved' = [short_name |-> venue_short_name(venue),
                        channel_number |-> news_number_for_venue(venue)]
    /\ UNCHANGED <<cli, startup, logs, loopState, pc, attempt, ctrlc, pollResult,
                   counter, invoked, completed, delays, logged, polled, signals,
                   trace, base, cancelMid>>

\* The payload of the configured mode is built for the event.
translate ==
    /\ pc = "translate"
    /\ logged = <<>>
    /\ logged' = << IF mode = "rubric"
                    THEN to_rubric_news(pollResult.event, rubric)
                    ELSE to_call(pollResult.event, Recipients) >>
    /\ UNCHANGED <<cli, startup, resolved, logs, loopState, pc, attempt, ctrlc,
                   pollResult, counter, invoked, completed, delays, polled,
                   signals, trace, base, cancelMid>>

NextTranslate ==
    \/ resolve_venue
    \/ translate

TranslateSpec == InitTranslate /\ [][NextTranslate]_vars

-----------------------------------------------------------------------------
(* Vocabulary of the properties *)

Count(seq, x) == Cardinality({i \in DOMAIN seq : seq[i] = x})

\* Increments of the announcement counter since the notification last handed
\* to delivery was handed over, by result.
Recorded(result) ==
    (counter[<<"rubric", result>>] - base[<<"rubric", result>>])
        + (counter[<<"call", result>>] - base[<<"call", result>>])

\* A notification was handed to delivery and its retry sequence is over.
SequenceEnded == pc = "select" /\ trace # <<>>

AllAttemptsFailed == SequenceEnded /\ Count(trace, "ok") = 0

InFlight ==
    (invoked["new_news"] + invoked["new_call"])
        - (completed[<<"new_news", "ok">>] + completed[<<"new_news", "error">>]
            + completed[<<"new_call", "ok">>] + completed[<<"new_call", "error">>])

-----------------------------------------------------------------------------
(* Properties *)

\* C1: a notification handed to delivery is sent at most 5 times; when every
\* attempt fails it is sent exactly 5 times, with exactly 5 result=error
\* increments and no result=ok increment of the counter.
C1_AtMostFiveSends ==
    /\ Count(trace, "send") <= 5
    /\ AllAttemptsFailed =>
           /\ Count(trace, "send") = 5
           /\ Recorded("error") = 5
           /\ Recorded("ok") = 0

C1_Witness == AllAttemptsFailed /\ Count(trace, "error") = 5

\* C2: the 1-second delay occurs only between attempts: no delay follows the
\* 5th failed attempt, so five failed attempts take exactly 4 delays.
C2_DelayOnlyBetweenAttempts ==
    /\ pc \in {"news_sleep", "call_sleep"} => attempt < 5
    /\ AllAttemptsFailed => Count(trace, "delay") = 4

\* C3: delivery stops at the first success: a success at attempt k follows
\* exactly k sends and k-1 failures, records k-1 result=error increments and
\* 1 result=ok increment, and nothing is sent or delayed after it.
C3_StopsOnFirstSuccess ==
    \A k \in DOMAIN trace :
        trace[k] = "ok" =>
            /\ k = Len(trace)
            /\ pc = "select"
            /\ Count(trace, "send") = Count(trace, "error") + 1
            /\ Count(trace, "delay") = Count(trace, "error")
            /\ Recorded("error") = Count(trace, "send") - 1
            /\ Recorded("ok") = 1

C3_Witness ==
    /\ pc = "select"
    /\ trace = <<"send", "error", "delay", "send", "error", "delay", "send", "ok">>
    /\ Recorded("error") = 2
    /\ Recorded("ok") = 1

\* C4: the counter is incremented exactly once per completed send of the
\* dispatch loop: result=ok counts the successful sends and result=error the
\* failed ones, target=rubric counts new_news and target=call counts
\* new_call, and the operation used is the one of the configured mode.
C4_CounterMatchesSends ==
    /\ \A r \in Results :
           /\ counter[<<"rubric", r>>] = completed[<<"new_news", r>>]
           /\ counter[<<"call", r>>] = completed[<<"new_call", r>>]
    /\ mode = "rubric" => invoked["new_call"] = 0
    /\ mode = "call" => invoked["new_news"] = 0

C4_Witness ==
    /\ counter[<<"call", "ok">>] >= 1
    /\ counter[<<"call", "error">>] >= 2
    /\ InFlight = 1

\* The payload the configured mode builds for an event.
Payload(event) ==
    IF mode = "rubric" THEN to_rubric_news(event, rubric) ELSE to_call(event, Recipients)

\* The payloads built for the events among the given poll results, in order.
RECURSIVE Translated(_)
Translated(results) ==
    IF results = <<>>
    THEN <<>>
    ELSE LET r == Head(results)
             p == IF r.kind = "Event" THEN Payload(r.event) ELSE None
         IN  (IF p # None THEN <<p>> ELSE <<>>) \o Translated(Tail(results))

\* C5: in dry-run mode the dispatch loop never invokes new_news or new_call,
\* never increments the counter and never sleeps, while every event polled
\* still has its payload built and logged.
C5_DryRunSendsNothing ==
    dry_run =>
        /\ invoked = [o \in Operations |-> 0]
        /\ counter = ZeroCounter
        /\ delays = 0
        /\ trace = <<>>
        /\ logged = Translated(polled)

C5_Witness ==
    /\ dry_run
    /\ Len(polled) = 3
    /\ Len(logged) = 2
    /\ \E i \in DOMAIN polled :
           polled[i].kind = "Event" /\ Payload(polled[i].event) = None

\* C6: once the cancellation signal has arrived while the loop waits in its
\* select!, the loop consumes no further poll result, also when a poll
\* result is ready as well; and a terminated loop stays terminated.
C6_IdleCancelTerminates ==
    [][ /\ (loopState = "Running" /\ pc = "select" /\ ctrlc) => polled' = polled
        /\ loopState = "Terminated" => loopState' = "Terminated" ]_vars

\* C7: delivery is serialized against polling: at most one send is in flight,
\* and from the first send of a notification to the end of its retry
\* sequence, delays included, no poll is pending and no poll result is
\* consumed.
C7_DeliverySerialized ==
    [][ /\ InFlight' \in {0, 1}
        /\ pc' = "select" => InFlight' = 0
        /\ InDelivery => (polled' = polled /\ pollResult' = NoResult) ]_vars

C7_Witness ==
    /\ pc = "call_sleep"
    /\ attempt = 3
    /\ Len(polled) = 2
    /\ pollResult = NoResult

\* C8: a retry sequence that has started ends only with a success or after
\* its 5th attempt, whenever a cancellation is requested: a ctrl-c signal
\* during the sequence changes nothing of it and does not terminate the loop.
C8_SequenceRunsToCompletion ==
    [][ InDelivery =>
            /\ loopState' = "Running"
            /\ signals' # signals =>
                   (pc' = pc /\ attempt' = attempt /\ trace' = trace)
            /\ ~InDelivery' =>
                   (trace'[Len(trace')] = "ok" \/ Count(trace', "send") = 5) ]_vars

C8_Witness ==
    /\ cancelMid
    /\ AllAttemptsFailed
    /\ Count(trace, "send") = 5
    /\ loopState = "Running"

\* C9: a cancellation requested during a retry sequence is not lost: when the
\* loop waits in its select! again the cancellation is pending there, so the
\* loop terminates without a second signal.
C9_CancelDuringDeliveryNotLost ==
    (loopState = "Running" /\ pc = "select" /\ cancelMid) => ctrlc

\* C10: a poll error or a no-op poll result leaves the loop Running, sends
\* nothing, records no metric, takes no delay and is followed by a new poll;
\* the end of a retry sequence, exhaustion included, leaves the loop
\* Running; the loop terminates only by taking the ctrl_c() branch.
C10_OnlyCancellationTerminates ==
    [][ /\ (polled' # polled /\ pollResult.kind \in {"NoOp", "Err"}) =>
               /\ loopState' = "Running"
               /\ pc' = "select"
               /\ pollResult' = NoResult
               /\ counter' = counter
               /\ invoked' = invoked
               /\ delays' = delays
        /\ (InDelivery /\ ~InDelivery') => loopState' = "Running"
        /\ loopState' # loopState =>
               (loopState' = "Terminated" /\ pc = "select" /\ ctrlc) ]_vars

C10_Witness ==
    /\ loopState = "Running"
    /\ pc = "select"
    /\ AllAttemptsFailed
    /\ \E i \in DOMAIN polled : polled[i].kind = "Err"
    /\ \E i \in DOMAIN polled : polled[i].kind = "NoOp"

\* C11: an event whose payload fails validation at construction is dropped:
\* nothing is logged as built, nothing is sent, counted or delayed for it,
\* it is not kept for a later iteration and the loop stays Running; and an
\* event yields no payload only when the construction fails.
C11_InvalidPayloadDropped ==
    [][ /\ (polled' # polled /\ pollResult.kind = "Event") =>
               LET rejected == ~BuildAccepts(EventText(pollResult.event))
               IN  /\ rejected =>
                          /\ loopState' = "Running"
                          /\ pc' = "select"
                          /\ pollResult' = NoResult
                          /\ counter' = counter
                          /\ invoked' = invoked
                          /\ delays' = delays
                          /\ trace' = trace
                   /\ (logged' = logged) <=> rejected
        /\ invoked' # invoked =>
               IF polled' # polled
               THEN BuildAccepts(EventText(pollResult.event))
               ELSE pc \in {"news_sleep", "call_sleep"} ]_vars

C11_Witness ==
    /\ ~dry_run
    /\ loopState = "Running"
    /\ pc = "select"
    /\ Len(polled) = 2
    /\ polled[1].kind = "Event"
    /\ polled[1].event.title = LongTitle
    /\ polled[2].kind = "Event"
    /\ Len(logged) = 1
    /\ invoked["new_news"] + invoked["new_call"] = Count(trace, "send")

\* The log lines the retry loops write once per attempt.
PerAttemptLogs ==
    {"Trying to send news", "News sent", "Call sent", "Failed to send news",
     "Failed to send call"}

\* C12: after all 5 attempts of a notification have failed, a log entry tells
\* that its delivery failed permanently, apart from the 5 per-attempt error
\* entries, and the loop is still Running.
C12_ExhaustionLoggedAsPermanent ==
    AllAttemptsFailed =>
        /\ Count(logs, "Failed to send news") + Count(logs, "Failed to send call") = 5
        /\ \E i \in DOMAIN logs : logs[i] \notin PerAttemptLogs
        /\ loopState \in {"Running", "Terminated"}

\* The venue catalog as the specification gives it.
Catalog ==
    [v \in { "Stage A", "Stage B", "Stage C",
             "Workshop 0 (Drop-in)", "Workshop 1 (NottingHack)",
             "Workshop 2 (Milliways)", "Workshop 3 (Furry High Commission)",
             "Workshop 4 (FieldFX)", "Workshop 5 (Maths)",
             "Workshop 6 (Hardware Hacking)", "Youth Workshop", "Null Sector" } |->
        CASE v = "Stage A" -> [short_name |-> "Stg A", channel_number |-> 1]
          [] v = "Stage B" -> [short_name |-> "Stg B", channel_number |-> 2]
          [] v = "Stage C" -> [short_name |-> "Stg C", channel_number |-> 3]
          [] v = "Workshop 0 (Drop-in)" -> [short_name |-> "Wksp 0", channel_number |-> 4]
          [] v = "Workshop 1 (NottingHack)" -> [short_name |-> "Wksp 1", channel_number |-> 4]
          [] v = "Workshop 2 (Milliways)" -> [short_name |-> "Wksp 2", channel_number |-> 4]
          [] v = "Workshop 3 (Furry High Commission)" ->
                 [short_name |-> "Wksp 3", channel_number |-> 4]
          [] v = "Workshop 4 (FieldFX)" -> [short_name |-> "Wksp 4", channel_number |-> 4]
          [] v = "Workshop 5 (Maths)" -> [short_name |-> "Wksp 5", channel_number |-> 4]
          [] v = "Workshop 6 (Hardware Hacking)" ->
                 [short_name |-> "Wksp 6", channel_number |-> 4]
          [] v = "Youth Workshop" -> [short_name |-> "Yth Wksp", channel_number |-> 5]
          [] v = "Null Sector" -> [short_name |-> "Nul Sec", channel_number |-> 6]]

\* C13: venue resolution is by exact match: a string that is no key of the
\* catalog (a prefix, a case variant, the empty string) resolves to itself
\* as short name with channel number 10, and every channel number is in 1..10.
C13_UnknownVenueFallsBack ==
    resolved # None =>
        LET v == pollResult.event.venue
        IN  /\ resolved.channel_number \in 1..10
            /\ v \notin DOMAIN Catalog =>
                   resolved = [short_name |-> v, channel_number |-> 10]

C13_Witness ==
    /\ pollResult # NoResult
    /\ pollResult.event.venue = "stage a"
    /\ resolved = [short_name |-> "stage a", channel_number |-> 10]

\* C14: for a venue of the catalog the payload carries the text
\* "<short_name>: <title>" and, in rubric mode, the channel number of the
\* venue; "Stage A" with "Opening Talk" gives "Stg A: Opening Talk" on 1.
C14_CatalogVenueTranslation ==
    (logged # <<>> /\ pc = "translate") =>
        LET e == pollResult.event
        IN  /\ (e.venue \in DOMAIN Catalog /\ logged[1] # None) =>
                   /\ logged[1].text = Catalog[e.venue].short_name \o ": " \o e.title
                   /\ mode = "rubric" =>
                          logged[1].number = Catalog[e.venue].channel_number
            /\ (e = [venue |-> "Stage A", title |-> "Opening Talk"] /\ mode = "rubric") =>
                   /\ logged[1] # None
                   /\ logged[1].text = "Stg A: Opening Talk"
                   /\ logged[1].number = 1

C14_Witness ==
    /\ pc = "translate"
    /\ mode = "rubric"
    /\ pollResult.event = [venue |-> "Workshop 6 (Hardware Hacking)", title |-> "Quiz"]
    /\ logged # <<>>
    /\ logged[1] # None
    /\ logged[1].text = "Wksp 6: Quiz"
    /\ logged[1].number = 4

\* C15: in rubric mode the rubric of every payload built is the configured
\* rubric.
C15_RubricIsConfigured ==
    (mode = "rubric" /\ logged # <<>>) =>
        \A i \in DOMAIN logged : logged[i] # None => logged[i].rubric = rubric

\* C16: a failure of the startup page, be it the send that fails or the
\* page that cannot be built, does not make main() return before its loop.
C16_StartupPageFailureNotFatal ==
    startup \in {"page_failed", "page_build_failed"} => loopState # "Failed"

\* C17: with a pre-event offset of zero or less main() fails at start-up and
\* never enters its loop: nothing is polled and nothing is sent.
C17_NonPositiveOffsetFatal ==
    (pre_event_announcement_time.in_range /\ pre_event_announcement_time.secs <= 0) =>
        /\ loopState \in {"Starting", "Failed"}
        /\ pc \in {"start", "announcer_new", "startup_page", "exit"}
        /\ polled = <<>>
        /\ invoked = [o \in Operations |-> 0]

\* Poll results that are events, among the given ones.
EventsAmong(results) == Count([i \in DOMAIN results |-> results[i].kind], "Event")

\* C18: nothing of a delivery outlives it: each event polled starts at
\* attempt 1 with its own 5 attempts, whatever came before, a send in a later
\* iteration is always the first send for the event just polled, and after n
\* events at most 5n sends have been made.
C18_FreshBudgetPerEvent ==
    [][ /\ invoked'["new_news"] + invoked'["new_call"] <= 5 * EventsAmong(polled')
        /\ pc' = "select" => attempt' = 0
        /\ invoked' # invoked =>
               IF polled' # polled
               THEN /\ pollResult.kind = "Event"
                    /\ attempt' = 1
                    /\ trace' = <<"send">>
               ELSE /\ pc \in {"news_sleep", "call_sleep"}
                    /\ attempt' = attempt + 1
                    /\ attempt' <= 5 ]_vars

C18_Witness ==
    /\ mode = "call"
    /\ Len(polled) = 2
    /\ pc = "new_call"
    /\ attempt = 1
    /\ invoked["new_call"] = 6
    /\ completed[<<"new_call", "error">>] = 5

\* The transport outcomes among the entries of a trace, in order.
Outcomes(tr) == SelectSeq(tr, LAMBDA x : x \in Results)

\* What a delivery does for a given sequence of transport outcomes, whatever
\* the mode: a send and a delay for each failure, a send for a success.
RECURSIVE ReferenceTrace(_)
ReferenceTrace(outs) ==
    IF outs = <<>>
    THEN <<>>
    ELSE (IF Head(outs) = "ok" THEN <<"send", "ok">> ELSE <<"send", "error", "delay">>)
             \o ReferenceTrace(Tail(outs))

\* C19: the rubric arm and the call arm do the same for the same dry-run flag
\* and the same transport outcomes: in either mode the sends and delays are
\* those of the one reference sequence for the outcomes so far, and the
\* counter of the mode's target has gained one increment per outcome, of
\* that outcome, the other target's none.
C19_ArmsEquivalent ==
    LET outs == Outcomes(trace)
        target == IF mode = "rubric" THEN "rubric" ELSE "call"
        other == IF mode = "rubric" THEN "call" ELSE "rubric"
    IN  /\ trace = ReferenceTrace(outs)
                       \o (IF pc \in {"new_news", "new_call"} THEN <<"send">> ELSE <<>>)
        /\ pc \in {"news_sleep", "call_sleep"} <=>
               (trace # <<>> /\ trace[Len(trace)] = "delay" /\ pc # "select")
        /\ \A r \in Results :
               /\ counter[<<target, r>>] - base[<<target, r>>] = Count(outs, r)
               /\ counter[<<other, r>>] = 0
        /\ delays = completed[<<"new_news", "error">>] + completed[<<"new_call", "error">>]
        /\ dry_run => trace = <<>>
        /\ SequenceEnded => (outs[Len(outs)] = "ok" \/ Len(outs) = 5)

C19_Witness ==
    /\ mode = "call"
    /\ pc = "call_sleep"
    /\ trace = <<"send", "error", "delay", "send", "error", "delay">>
    /\ counter[<<"call", "error">>] - base[<<"call", "error">>] = 2
    /\ Len(polled) = 2

====
